---- MODULE Spec2Model ----
(***************************************************************************)
(* A model of netbox/users/views.py and netbox/users/forms/bulk_edit.py:   *)
(* the login / logout views, the self-service API token views and the      *)
(* bulk-edit forms.                                                        *)
(*                                                                         *)
(* Each browser client p has one session and at most one request in        *)
(* flight.  A request is dispatched to a view (pc[p] names the view        *)
(* method that is running) and the view then runs in one or more steps;    *)
(* a step boundary is placed wherever the view reads or writes state that  *)
(* is shared between requests (the signal registry, the database).         *)
(***************************************************************************)
EXTENDS Integers, Sequences, FiniteSets, TLC

VARIABLES
    MAINTENANCE_MODE,      \* get_config().MAINTENANCE_MODE (dynamic configuration)
    receiver_connected,    \* is update_last_login connected to user_logged_in
    now,                   \* the clock read by update_last_login
    last_login,            \* User.last_login, per user
    userconfigs,           \* the UserConfig table: a sequence of rows
    session,               \* request.user of each client's session
    pc,                    \* the view method each client's request is in
    request,               \* the request each client sent last
    response,              \* the response each client received last
    events,                \* what the running / last request did, in order
    ALLOW_TOKEN_RETRIEVAL, \* settings.ALLOW_TOKEN_RETRIEVAL
    tokens,                \* the Token table: pk -> row
    next_pk,               \* the Token table's next primary key
    token_response,        \* the response to the last token request
    rows,                  \* the tables the bulk-edit views work on
    admitted,              \* the rows restrict() admits for the acting principal
    bulk_form,             \* the last bound bulk-edit form
    bulk_response          \* the response to the last bulk-edit request

login_vars == <<MAINTENANCE_MODE, receiver_connected, now, last_login, userconfigs,
                session, pc, request, response, events>>
token_vars == <<ALLOW_TOKEN_RETRIEVAL, tokens, next_pk, token_response>>
bulk_vars == <<rows, admitted, bulk_form, bulk_response>>
vars == <<login_vars, token_vars, bulk_vars>>

(***************************************************************************)
(* Bounds                                                                  *)
(***************************************************************************)
MaxClock == 2
MaxTokens == 2
NumRows == 2

Users == {"alice", "bob"}
Clients == {1, 2}
Anonymous == "AnonymousUser"

(***************************************************************************)
(* Optional values: a missing dictionary key is the empty set.             *)
(***************************************************************************)
None == {}

Some(x) == {x}

\* dict.get(key, default)
Get(opt, default) == IF opt = None THEN default ELSE CHOOSE x \in opt : TRUE

(***************************************************************************)
(* URLs are sequences of tokens.  ":", "/" and "\\" are the delimiters     *)
(* the check looks at; every other token stands for a run of ordinary      *)
(* characters (a scheme name, a host name, a path segment); no token is    *)
(* white space or a control character, which the check strips or refuses.  *)
(***************************************************************************)
OwnHost == "netbox.example"

RelativePath == <<"/", "dashboard">>
OtherHostUrl == <<"https", ":", "/", "/", "evil.example", "/", "x">>
OwnHostUrl == <<"https", ":", "/", "/", OwnHost, "/", "dashboard">>
SchemeRelativeUrl == <<"/", "/", "evil.example", "/", "x">>
BackslashUrl == <<"/", "\\", "evil.example">>
TripleSlashUrl == <<"/", "/", "/", "evil.example">>
ScriptUrl == <<"javascript", ":", "alert">>
EmptyUrl == <<>>

\* settings.LOGIN_REDIRECT_URL and reverse('home'): both the application root.
LOGIN_REDIRECT_URL == <<"/">>

ReverseHome == <<"/">>

LOGOUT_REDIRECT_URL == <<"/", "login">>

IsWord(t) == t \notin {":", "/", "\\"}

Drop(s, n) == SubSeq(s, n + 1, Len(s))

StartsWith(s, pre) == Len(s) >= Len(pre) /\ SubSeq(s, 1, Len(pre)) = pre

\* urlparse(url).scheme: the word before a leading ":".
UrlScheme(url) ==
    IF Len(url) >= 2 /\ IsWord(url[1]) /\ url[2] = ":" THEN url[1] ELSE ""

AfterScheme(url) == IF UrlScheme(url) # "" THEN Drop(url, 2) ELSE url

\* The tokens of s up to its first "/".
RECURSIVE UpToSlash(_)
UpToSlash(s) ==
    IF s = <<>> \/ s[1] = "/" THEN <<>> ELSE <<s[1]>> \o UpToSlash(Tail(s))

\* urlparse(url).netloc: what follows "//" up to the next "/".
UrlNetloc(url) ==
    LET rest == AfterScheme(url)
    IN  IF StartsWith(rest, <<"/", "/">>) THEN UpToSlash(Drop(rest, 2)) ELSE <<>>

\* url.replace('\\', '/')
ReplaceBackslash(url) == [i \in 1..Len(url) |-> IF url[i] = "\\" THEN "/" ELSE url[i]]

\* django.utils.http._url_has_allowed_host_and_scheme
UrlHasAllowedHostAndScheme1(url, allowed_hosts) ==
    LET scheme0 == UrlScheme(url)
        netloc == UrlNetloc(url)
        scheme == IF scheme0 = "" /\ netloc # <<>> THEN "http" ELSE scheme0
    IN  /\ ~StartsWith(url, <<"/", "/", "/">>)
        /\ ~(netloc = <<>> /\ scheme0 # "")
        /\ (netloc = <<>> \/ netloc \in allowed_hosts)
        /\ (scheme = "" \/ scheme \in {"http", "https"})

\* django.utils.http.url_has_allowed_host_and_scheme
url_has_allowed_host_and_scheme(url, allowed_hosts) ==
    /\ url # <<>>
    /\ UrlHasAllowedHostAndScheme1(url, allowed_hosts)
    /\ UrlHasAllowedHostAndScheme1(ReplaceBackslash(url), allowed_hosts)

\* The check without the host test.
NextIsSafe_AnyHost(url) == url # <<>>

\* The check with the application's own host allowed.
NextIsSafe_OwnHost(url) == url_has_allowed_host_and_scheme(url, {<<OwnHost>>})

\* The check as LoginView.redirect_to_next calls it: allowed_hosts=None, the empty set.
NextIsSafe(url) == url_has_allowed_host_and_scheme(url, {})

(***************************************************************************)
(* Requests and responses                                                  *)
(***************************************************************************)
Passwords == {"right", "wrong"}

NoRequest == [view |-> "none", method |-> "GET", GET_next |-> None, POST_next |-> None,
              username |-> Anonymous, password |-> "wrong"]

LoginGetRequest(get_next) ==
    [view |-> "login", method |-> "GET", GET_next |-> get_next, POST_next |-> None,
     username |-> Anonymous, password |-> "wrong"]

LoginPostRequest(get_next, post_next, username, password) ==
    [view |-> "login", method |-> "POST", GET_next |-> get_next, POST_next |-> post_next,
     username |-> username, password |-> password]

LogoutRequest ==
    [view |-> "logout", method |-> "GET", GET_next |-> None, POST_next |-> None,
     username |-> Anonymous, password |-> "wrong"]

NoResponse == [status |-> 0, template |-> "", location |-> None,
               auth_backends |-> <<>>, delete_cookie |-> {}]

Render(template, auth_backends) ==
    [status |-> 200, template |-> template, location |-> None,
     auth_backends |-> auth_backends, delete_cookie |-> {}]

HttpResponseRedirect(url) ==
    [status |-> 302, template |-> "", location |-> Some(url),
     auth_backends |-> <<>>, delete_cookie |-> {}]

\* The response Django makes of an exception a view lets through.
ServerError == [status |-> 500, template |-> "", location |-> None,
                auth_backends |-> <<>>, delete_cookie |-> {}]

NoTokenResponse ==
    [by |-> Anonymous, view |-> "none", method |-> "GET", pk |-> None, status |-> 0,
     template |-> "", location |-> "", object |-> None, context_key |-> None,
     form_keys |-> {}, table_keys |-> {}, shown |-> {}]

NoBulkForm == [model |-> "none", pk |-> {}, is_valid |-> FALSE, cleaned_pk |-> {}]

NoBulkResponse == [updated |-> 0, unauthorized |-> 0]

BulkModels == {"NetBoxUser", "ObjectPermission"}

Pks == 1..NumRows

(***************************************************************************)
(* LoginView                                                               *)
(***************************************************************************)
\* load_backends(settings.AUTHENTICATION_BACKENDS).keys() and get_saml_idps()
AuthenticationBackends == <<"github", "saml">>

SamlIdps == <<"idp1", "idp2">>

gen_auth_data(name, display, params) ==
    [name |-> name, display_name |-> display, params |-> params]

\* The links of one backend: one per SAML identity provider, else one.
BackendLinks(name, get_next) ==
    LET params == IF get_next # None /\ Get(get_next, <<>>) # <<>>
                  THEN [next |-> get_next, idp |-> None]
                  ELSE [next |-> None, idp |-> None]
    IN  IF name = "saml" /\ SamlIdps # <<>>
        THEN [i \in 1..Len(SamlIdps) |->
                 gen_auth_data(name, <<name, SamlIdps[i]>>,
                               [params EXCEPT !.idp = Some(SamlIdps[i])])]
        ELSE <<gen_auth_data(name, <<name>>, params)>>

RECURSIVE AuthBackendsFrom(_, _)
AuthBackendsFrom(i, get_next) ==
    IF i > Len(AuthenticationBackends) THEN <<>>
    ELSE BackendLinks(AuthenticationBackends[i], get_next) \o AuthBackendsFrom(i + 1, get_next)

get_auth_backends(req) == AuthBackendsFrom(1, req.GET_next)

\* forms.LoginForm(request, data=request.POST).is_valid(): the credentials are a user's.
FormIsValid(req) == req.username \in Users /\ req.password = "right"

\* LoginView.redirect_to_next: the response and what it logs.
redirect_to_next(req) ==
    LET data == IF req.method = "POST" THEN req.POST_next ELSE req.GET_next
        redirect_url == Get(data, LOGIN_REDIRECT_URL)
    IN  IF redirect_url # <<>> /\ NextIsSafe(redirect_url)
        THEN [response |-> HttpResponseRedirect(redirect_url),
              events |-> <<"debug: redirecting", "redirect">>]
        ELSE [response |-> HttpResponseRedirect(ReverseHome),
              events |-> IF redirect_url # <<>>
                         THEN <<"warning: unsafe next", "redirect">>
                         ELSE <<"redirect">>]

\* A check that always finds a config.
HasConfig_Always(u) == TRUE

\* hasattr(request.user, 'config')
HasConfig(u) == \E i \in 1..Len(userconfigs) : userconfigs[i].user = u

DEFAULT_USER_PREFERENCES == "defaults"

CustomPreferences == "custom"

\* UserConfig(user=request.user, data=config.DEFAULT_USER_PREFERENCES)
NewUserConfig(u) == [user |-> u, data |-> DEFAULT_USER_PREFERENCES]

\* UserConfig.user is one-to-one: a second row for a user is an IntegrityError.
SaveRaises(row) == \E i \in 1..Len(userconfigs) : userconfigs[i].user = row.user

\* A request arrives at a view.
Dispatch(p, req, name) ==
    /\ pc[p] = "idle"
    /\ pc' = [pc EXCEPT ![p] = name]
    /\ request' = [request EXCEPT ![p] = req]
    /\ events' = [events EXCEPT ![p] = <<>>]
    /\ UNCHANGED <<MAINTENANCE_MODE, receiver_connected, now, last_login, userconfigs,
                   session, response>>
    /\ UNCHANGED <<token_vars, bulk_vars>>

Respond(p, resp, evs) ==
    /\ pc' = [pc EXCEPT ![p] = "idle"]
    /\ response' = [response EXCEPT ![p] = resp]
    /\ events' = [events EXCEPT ![p] = events[p] \o evs]

DispatchLoginGet(p, get_next) == Dispatch(p, LoginGetRequest(get_next), "LoginView.get")

DispatchLoginPost(p, get_next, post_next, username, password) ==
    Dispatch(p, LoginPostRequest(get_next, post_next, username, password), "LoginView.post")

DispatchLogout(p) == Dispatch(p, LogoutRequest, "LogoutView.get")

\* LoginView.get
LoginView_get(p) ==
    /\ pc[p] = "LoginView.get"
    /\ IF session[p] # Anonymous
       THEN LET r == redirect_to_next(request[p])
            IN  Respond(p, r.response, r.events)
       ELSE Respond(p, Render("login.html", get_auth_backends(request[p])), <<>>)
    /\ UNCHANGED <<MAINTENANCE_MODE, receiver_connected, now, last_login, userconfigs,
                   session, request>>
    /\ UNCHANGED <<token_vars, bulk_vars>>

\* LoginView.post with the maintenance-mode check ahead of the form validation.
LoginView_post_CheckFirst(p) ==
    /\ pc[p] = "LoginView.post"
    /\ receiver_connected' = (receiver_connected /\ ~MAINTENANCE_MODE)
    /\ IF FormIsValid(request[p])
       THEN /\ pc' = [pc EXCEPT ![p] = "auth_login"]
            /\ events' = [events EXCEPT ![p] = @ \o <<"debug: form valid">>]
            /\ UNCHANGED response
       ELSE Respond(p, Render("login.html", get_auth_backends(request[p])),
                    <<"debug: form invalid">>)
    /\ UNCHANGED <<MAINTENANCE_MODE, now, last_login, userconfigs, session, request>>
    /\ UNCHANGED <<token_vars, bulk_vars>>

\* LoginView.post up to auth_login: form validation and the maintenance-mode check.
LoginView_post(p) ==
    /\ pc[p] = "LoginView.post"
    /\ IF FormIsValid(request[p])
       THEN /\ pc' = [pc EXCEPT ![p] = "auth_login"]
            /\ IF MAINTENANCE_MODE
               THEN /\ receiver_connected' = FALSE
                    /\ events' = [events EXCEPT ![p] =
                           @ \o <<"debug: form valid", "warning: maintenance mode",
                                  "disconnect update_last_login">>]
               ELSE /\ receiver_connected' = receiver_connected
                    /\ events' = [events EXCEPT ![p] = @ \o <<"debug: form valid">>]
            /\ UNCHANGED response
       ELSE /\ Respond(p, Render("login.html", get_auth_backends(request[p])),
                       <<"debug: form invalid">>)
            /\ UNCHANGED receiver_connected
    /\ UNCHANGED <<MAINTENANCE_MODE, now, last_login, userconfigs, session, request>>
    /\ UNCHANGED <<token_vars, bulk_vars>>

\* The same with logger.info ahead of auth_login.
LoginView_post_auth_login_LogFirst(p) ==
    /\ pc[p] = "auth_login"
    /\ LET u == request[p].username
       IN  /\ session' = [session EXCEPT ![p] = u]
           /\ IF receiver_connected
              THEN /\ last_login' = [last_login EXCEPT ![u] = now]
                   /\ events' = [events EXCEPT ![p] =
                          @ \o <<"info: authenticated", "session", "update_last_login",
                                 "message: logged in">>]
              ELSE /\ last_login' = last_login
                   /\ events' = [events EXCEPT ![p] =
                          @ \o <<"info: authenticated", "session", "message: logged in">>]
    /\ pc' = [pc EXCEPT ![p] = "check_config"]
    /\ UNCHANGED <<MAINTENANCE_MODE, receiver_connected, now, userconfigs, request, response>>
    /\ UNCHANGED <<token_vars, bulk_vars>>

\* auth_login(request, form.get_user()), then logger.info and messages.success.
\* auth_login puts the user in the session and then sends user_logged_in, whose
\* receiver update_last_login (when connected) stores the time.
LoginView_post_auth_login(p) ==
    /\ pc[p] = "auth_login"
    /\ LET u == request[p].username
       IN  /\ session' = [session EXCEPT ![p] = u]
           /\ IF receiver_connected
              THEN /\ last_login' = [last_login EXCEPT ![u] = now]
                   /\ events' = [events EXCEPT ![p] =
                          @ \o <<"session", "update_last_login", "info: authenticated",
                                 "message: logged in">>]
              ELSE /\ last_login' = last_login
                   /\ events' = [events EXCEPT ![p] =
                          @ \o <<"session", "info: authenticated", "message: logged in">>]
    /\ pc' = [pc EXCEPT ![p] = "check_config"]
    /\ UNCHANGED <<MAINTENANCE_MODE, receiver_connected, now, userconfigs, request, response>>
    /\ UNCHANGED <<token_vars, bulk_vars>>

\* if not hasattr(request.user, 'config'), and the redirect when the user has one.
LoginView_post_check_config(p) ==
    /\ pc[p] = "check_config"
    /\ IF HasConfig(session[p])
       THEN LET r == redirect_to_next(request[p])
            IN  Respond(p, r.response, <<"userconfig exists">> \o r.events)
       ELSE /\ pc' = [pc EXCEPT ![p] = "save_config"]
            /\ UNCHANGED <<response, events>>
    /\ UNCHANGED <<MAINTENANCE_MODE, receiver_connected, now, last_login, userconfigs,
                   session, request>>
    /\ UNCHANGED <<token_vars, bulk_vars>>

\* UserConfig(...).save() and the redirect.  When the save raises, the view lets the
\* exception through; whether the session written by auth_login is kept is up to the
\* session middleware.
LoginView_post_save_config(p) ==
    /\ pc[p] = "save_config"
    /\ LET row == NewUserConfig(session[p])
       IN  IF SaveRaises(row)
           THEN /\ Respond(p, ServerError, <<"IntegrityError">>)
                /\ \E s \in {session[p], Anonymous} : session' = [session EXCEPT ![p] = s]
                /\ UNCHANGED userconfigs
           ELSE /\ userconfigs' = Append(userconfigs, row)
                /\ LET r == redirect_to_next(request[p])
                   IN  Respond(p, r.response, <<"save userconfig">> \o r.events)
                /\ UNCHANGED session
    /\ UNCHANGED <<MAINTENANCE_MODE, receiver_connected, now, last_login, request>>
    /\ UNCHANGED <<token_vars, bulk_vars>>

(***************************************************************************)
(* LogoutView                                                              *)
(***************************************************************************)
\* The redirect without the cookie deletion.
LogoutResponse_KeepCookie == HttpResponseRedirect(LOGOUT_REDIRECT_URL)

LogoutResponse ==
    [HttpResponseRedirect(LOGOUT_REDIRECT_URL) EXCEPT !.delete_cookie = {"session_key"}]

\* LogoutView.get
LogoutView_get(p) ==
    /\ pc[p] = "LogoutView.get"
    /\ session' = [session EXCEPT ![p] = Anonymous]
    /\ Respond(p, LogoutResponse, <<"auth_logout", "info: logged out", "message: logged out">>)
    /\ UNCHANGED <<MAINTENANCE_MODE, receiver_connected, now, last_login, userconfigs, request>>
    /\ UNCHANGED <<token_vars, bulk_vars>>

(***************************************************************************)
(* API tokens.  Every token view is behind LoginRequiredMixin: the user u  *)
(* of a request is an authenticated user.                                  *)
(***************************************************************************)
Descriptions == {"", "ci"}

\* The secret of the token with primary key pk.
KeyOf(pk) == <<"key", pk>>

\* Token.objects with no filter on the user.
TokenQuerySet_Everyone(u) == tokens

\* Token.objects.filter(user=request.user)
TokenQuerySet(u) == {t \in tokens : t.user = u}

\* get_object_or_404(queryset, pk=pk): the rows found, none when it raises Http404.
get_object_or_404(queryset, pk) == {t \in queryset : t.pk = pk}

TokenResponse(u, view, method, pk) ==
    [NoTokenResponse EXCEPT !.by = u, !.view = view, !.method = method, !.pk = pk]

Http404(u, view, method, pk) ==
    [TokenResponse(u, view, method, pk) EXCEPT !.status = 404]

TokenRedirect(u, view, method, pk, to) ==
    [TokenResponse(u, view, method, pk) EXCEPT !.status = 302, !.location = to]

\* The key fields forms.TokenForm renders filled in: the key of a stored token, and
\* only while retrieval is allowed.
TokenFormKeys(stored) ==
    IF ALLOW_TOKEN_RETRIEVAL THEN {t.key : t \in stored} ELSE {}

\* The keys tables.TokenTable shows in clear: only while retrieval is allowed.
TokenTableKeys(queryset) ==
    IF ALLOW_TOKEN_RETRIEVAL THEN {t.key : t \in queryset} ELSE {}

\* The test without "not pk".
ShowKeyOnce_AnySave(pk) == ~ALLOW_TOKEN_RETRIEVAL

\* if not pk and not settings.ALLOW_TOKEN_RETRIEVAL
ShowKeyOnce(pk) == pk = None /\ ~ALLOW_TOKEN_RETRIEVAL

\* TokenListView.get
TokenListView_get(u) ==
    /\ LET qs == TokenQuerySet(u)
       IN  token_response' =
               [TokenResponse(u, "list", "GET", None) EXCEPT
                   !.status = 200, !.template = "users/api_tokens.html",
                   !.shown = {t.pk : t \in qs}, !.table_keys = TokenTableKeys(qs)]
    /\ UNCHANGED <<ALLOW_TOKEN_RETRIEVAL, tokens, next_pk>>
    /\ UNCHANGED <<login_vars, bulk_vars>>

\* TokenEditView.get
TokenEditView_get(u, pk) ==
    /\ LET found == IF pk # None THEN get_object_or_404(TokenQuerySet(u), Get(pk, 0)) ELSE {}
       IN  token_response' =
               IF pk # None /\ found = {}
               THEN Http404(u, "edit", "GET", pk)
               ELSE [TokenResponse(u, "edit", "GET", pk) EXCEPT
                        !.status = 200, !.template = "generic/object_edit.html",
                        !.object = {t.pk : t \in found},
                        !.form_keys = TokenFormKeys(found)]
    /\ UNCHANGED <<ALLOW_TOKEN_RETRIEVAL, tokens, next_pk>>
    /\ UNCHANGED <<login_vars, bulk_vars>>

\* TokenEditView.post.  is_valid is the outcome of forms.TokenForm's validation,
\* description the field the form carries, addanother whether '_addanother' was posted.
TokenEditView_post(u, pk, is_valid, description, addanother) ==
    /\ pk = None => next_pk <= MaxTokens
    /\ LET found == IF pk # None THEN get_object_or_404(TokenQuerySet(u), Get(pk, 0)) ELSE {}
           old == CHOOSE t \in found : TRUE
           saved == IF pk # None
                    THEN [old EXCEPT !.description = description, !.user = u]
                    ELSE [pk |-> next_pk, user |-> u, key |-> KeyOf(next_pk),
                          description |-> description, created_by |-> u]
       IN  IF pk # None /\ found = {}
           THEN /\ token_response' = Http404(u, "edit", "POST", pk)
                /\ UNCHANGED <<tokens, next_pk>>
           ELSE IF is_valid
           THEN /\ tokens' = (tokens \ found) \cup {saved}
                /\ next_pk' = IF pk = None THEN next_pk + 1 ELSE next_pk
                /\ token_response' =
                       IF ShowKeyOnce(pk)
                       THEN [TokenResponse(u, "edit", "POST", pk) EXCEPT
                                !.status = 200, !.template = "users/api_token.html",
                                !.object = {saved.pk}, !.context_key = Some(saved.key)]
                       ELSE IF addanother
                       THEN TokenRedirect(u, "edit", "POST", pk, "request.path")
                       ELSE TokenRedirect(u, "edit", "POST", pk, "users:token_list")
           ELSE /\ token_response' =
                       [TokenResponse(u, "edit", "POST", pk) EXCEPT
                           !.status = 200, !.template = "generic/object_edit.html",
                           !.object = {t.pk : t \in found},
                           !.form_keys = TokenFormKeys(found)]
                /\ UNCHANGED <<tokens, next_pk>>
    /\ UNCHANGED ALLOW_TOKEN_RETRIEVAL
    /\ UNCHANGED <<login_vars, bulk_vars>>

\* TokenDeleteView.get
TokenDeleteView_get(u, pk) ==
    /\ LET found == get_object_or_404(TokenQuerySet(u), pk)
       IN  token_response' =
               IF found = {}
               THEN Http404(u, "delete", "GET", Some(pk))
               ELSE [TokenResponse(u, "delete", "GET", Some(pk)) EXCEPT
                        !.status = 200, !.template = "generic/object_delete.html",
                        !.object = {pk}]
    /\ UNCHANGED <<ALLOW_TOKEN_RETRIEVAL, tokens, next_pk>>
    /\ UNCHANGED <<login_vars, bulk_vars>>

\* TokenDeleteView.post.  is_valid is the outcome of ConfirmationForm's validation.
TokenDeleteView_post(u, pk, is_valid) ==
    /\ LET found == get_object_or_404(TokenQuerySet(u), pk)
       IN  IF found = {}
           THEN /\ token_response' = Http404(u, "delete", "POST", Some(pk))
                /\ UNCHANGED tokens
           ELSE IF is_valid
           THEN /\ tokens' = tokens \ found
                /\ token_response' =
                       TokenRedirect(u, "delete", "POST", Some(pk), "users:token_list")
           ELSE /\ token_response' =
                       [TokenResponse(u, "delete", "POST", Some(pk)) EXCEPT
                           !.status = 200, !.template = "generic/object_delete.html",
                           !.object = {pk}]
                /\ UNCHANGED tokens
    /\ UNCHANGED <<ALLOW_TOKEN_RETRIEVAL, next_pk>>
    /\ UNCHANGED <<login_vars, bulk_vars>>

(***************************************************************************)
(* Bulk-edit forms                                                         *)
(***************************************************************************)
\* The primary keys a client can submit: those of the rows, and 0, which names no row.
SubmittablePks == 0..NumRows

\* A pk queryset narrowed to the rows restrict() admits.
UserBulkEditForm_queryset_Restricted == admitted["NetBoxUser"]

\* UserBulkEditForm.__init__: self.fields['pk'].queryset = self.model.objects.all()
UserBulkEditForm_queryset == DOMAIN rows["NetBoxUser"]

\* ObjectPermissionBulkEditForm.__init__: the same over ObjectPermission.
ObjectPermissionBulkEditForm_queryset == DOMAIN rows["ObjectPermission"]

BulkEditForm_queryset(m) ==
    IF m = "NetBoxUser" THEN UserBulkEditForm_queryset
    ELSE ObjectPermissionBulkEditForm_queryset

\* forms.ModelMultipleChoiceField.clean: a required field, every value a row of the
\* queryset.
PkFieldIsValid(queryset, pks) == pks # {} /\ pks \subseteq queryset

\* The form bound to a POST: its pk field validated.
BoundBulkEditForm(m, pks) ==
    LET ok == PkFieldIsValid(BulkEditForm_queryset(m), pks)
    IN  [model |-> m, pk |-> pks, is_valid |-> ok, cleaned_pk |-> IF ok THEN pks ELSE {}]

\* generic.BulkEditView.post with '_apply': binds the form and, when it is valid,
\* updates the submitted rows of its restricted queryset; when a submitted row is
\* outside it, no row is changed and the rows refused are counted.
BulkEditView_post(m, pks, value) ==
    /\ LET form == BoundBulkEditForm(m, pks)
           refused == form.cleaned_pk \ admitted[m]
       IN  /\ bulk_form' = form
           /\ IF form.is_valid /\ refused = {}
              THEN /\ rows' = [rows EXCEPT ![m] =
                          [k \in Pks |-> IF k \in form.cleaned_pk
                                         THEN [flag |-> value] ELSE rows[m][k]]]
                   /\ bulk_response' = [updated |-> Cardinality(form.cleaned_pk),
                                        unauthorized |-> 0]
              ELSE /\ rows' = rows
                   /\ bulk_response' = [updated |-> 0,
                                        unauthorized |-> Cardinality(refused)]
    /\ UNCHANGED admitted
    /\ UNCHANGED <<login_vars, token_vars>>

(***************************************************************************)
(* The environment: configuration changes and the passing of time.         *)
(***************************************************************************)
SetMaintenanceMode(b) ==
    /\ MAINTENANCE_MODE # b
    /\ MAINTENANCE_MODE' = b
    /\ UNCHANGED <<receiver_connected, now, last_login, userconfigs, session, pc, request,
                   response, events>>
    /\ UNCHANGED <<token_vars, bulk_vars>>

Tick ==
    /\ now < MaxClock
    /\ now' = now + 1
    /\ UNCHANGED <<MAINTENANCE_MODE, receiver_connected, last_login, userconfigs, session, pc,
                   request, response, events>>
    /\ UNCHANGED <<token_vars, bulk_vars>>

(***************************************************************************)
(* Initial states                                                          *)
(***************************************************************************)
\* The UserConfig tables a deployment can start from: each user has a row (made by
\* create_userconfig when the user was created, edited since) or none.
InitialUserConfigs ==
    { <<>>,
      <<[user |-> "alice", data |-> CustomPreferences]>>,
      <<[user |-> "bob", data |-> CustomPreferences]>>,
      <<[user |-> "alice", data |-> CustomPreferences],
        [user |-> "bob", data |-> CustomPreferences]>> }

LoginInit ==
    /\ MAINTENANCE_MODE = FALSE
    /\ receiver_connected = TRUE
    /\ now = 1
    /\ last_login = [u \in Users |-> 0]
    /\ userconfigs \in InitialUserConfigs
    /\ session = [p \in Clients |-> Anonymous]
    /\ pc = [p \in Clients |-> "idle"]
    /\ request = [p \in Clients |-> NoRequest]
    /\ response = [p \in Clients |-> NoResponse]
    /\ events = [p \in Clients |-> <<>>]

TokenInit ==
    /\ ALLOW_TOKEN_RETRIEVAL = FALSE
    /\ tokens = {}
    /\ next_pk = 1
    /\ token_response = NoTokenResponse

BulkInit ==
    /\ rows = [m \in BulkModels |-> [k \in Pks |-> [flag |-> FALSE]]]
    /\ admitted = [m \in BulkModels |-> {}]
    /\ bulk_form = NoBulkForm
    /\ bulk_response = NoBulkResponse

Init == LoginInit /\ TokenInit /\ BulkInit

(***************************************************************************)
(* One client, every kind of request and of 'next' value.                  *)
(***************************************************************************)
NextValues == {None, Some(EmptyUrl), Some(RelativePath), Some(OtherHostUrl), Some(OwnHostUrl),
               Some(SchemeRelativeUrl), Some(BackslashUrl), Some(TripleSlashUrl),
               Some(ScriptUrl)}

\* Submitted credentials: a user's, a wrong password, a name that is no user.
Credentials == {<<"alice", "right">>, <<"alice", "wrong">>, <<"mallory", "right">>}

LoginSteps(p) ==
    \/ LoginView_get(p)
    \/ LoginView_post(p)
    \/ LoginView_post_auth_login(p)
    \/ LoginView_post_check_config(p)
    \/ LoginView_post_save_config(p)
    \/ LogoutView_get(p)

Next ==
    \/ \E n \in NextValues : DispatchLoginGet(1, n)
    \/ \E g \in {None, Some(EmptyUrl), Some(RelativePath)}, n \in NextValues,
          c \in Credentials :
          DispatchLoginPost(1, g, n, c[1], c[2])
    \/ DispatchLogout(1)
    \/ LoginSteps(1)
    \/ \E b \in BOOLEAN : SetMaintenanceMode(b)
    \/ Tick

Spec == Init /\ [][Next]_vars

(***************************************************************************)
(* Two clients logging in at the same time, while the clock stands still.  *)
(***************************************************************************)
NextConcurrent ==
    \/ \E p \in Clients :
        \/ \E u \in Users : DispatchLoginPost(p, None, None, u, "right")
        \/ LoginView_post(p)
        \/ LoginView_post_auth_login(p)
        \/ LoginView_post_check_config(p)
        \/ LoginView_post_save_config(p)
    \/ \E b \in BOOLEAN : SetMaintenanceMode(b)

SpecConcurrent == Init /\ [][NextConcurrent]_vars

(***************************************************************************)
(* Token requests of two users.                                            *)
(***************************************************************************)
TokenSpecInit ==
    /\ LoginInit
    /\ userconfigs = <<>>
    /\ ALLOW_TOKEN_RETRIEVAL \in BOOLEAN
    /\ tokens = {}
    /\ next_pk = 1
    /\ token_response = NoTokenResponse
    /\ BulkInit

TokenPks == 1..MaxTokens

NextToken ==
    \E u \in Users :
        \/ TokenListView_get(u)
        \/ \E pk \in {None} \cup {Some(k) : k \in TokenPks} : TokenEditView_get(u, pk)
        \/ \E pk \in {None} \cup {Some(k) : k \in TokenPks}, ok \in BOOLEAN,
              d \in Descriptions, a \in BOOLEAN : TokenEditView_post(u, pk, ok, d, a)
        \/ \E pk \in TokenPks : TokenDeleteView_get(u, pk)
        \/ \E pk \in TokenPks, ok \in BOOLEAN : TokenDeleteView_post(u, pk, ok)

SpecToken == TokenSpecInit /\ [][NextToken]_vars

(***************************************************************************)
(* Bulk edits by a principal whose restrict() admits some of the rows.     *)
(***************************************************************************)
BulkSpecInit ==
    /\ LoginInit
    /\ userconfigs = <<>>
    /\ TokenInit
    /\ rows = [m \in BulkModels |-> [k \in Pks |-> [flag |-> FALSE]]]
    /\ admitted \in [BulkModels -> SUBSET Pks]
    /\ bulk_form = NoBulkForm
    /\ bulk_response = NoBulkResponse

NextBulk ==
    \E m \in BulkModels, pks \in SUBSET SubmittablePks, value \in BOOLEAN :
        BulkEditView_post(m, pks, value)

SpecBulk == BulkSpecInit /\ [][NextBulk]_vars

(***************************************************************************)
(* Properties of the login and logout views                                *)
(***************************************************************************)
\* The 'next' value the client submitted: in the POST body of a POST, else in the query.
SubmittedNext(req) == IF req.method = "POST" THEN req.POST_next ELSE req.GET_next

\* Client p has its response, and it is a redirect made by LoginView.
LoginRedirected(p) ==
    pc[p] = "idle" /\ request[p].view = "login" /\ response[p].status = 302

\* Client p has the redirect of a successful login POST.
LoginSucceeded(p) == LoginRedirected(p) /\ request[p].method = "POST"

OtherHostExamples == {OtherHostUrl, SchemeRelativeUrl, BackslashUrl, TripleSlashUrl}

Mentions(url, token) == \E i \in 1..Len(url) : url[i] = token

\* The position of event e in the sequence evs, 0 when it is not in it.
Pos(e, evs) == IF \E i \in 1..Len(evs) : evs[i] = e
               THEN CHOOSE i \in 1..Len(evs) : evs[i] = e
               ELSE 0

Has(e, evs) == Pos(e, evs) > 0

\* C1: every redirect LoginView makes (after a successful login POST, or for a GET by an
\* authenticated user) goes to the landing page and never to the other host when 'next'
\* names another host, and goes to exactly the submitted path when 'next' is a relative
\* path.
C1_SafeRedirect ==
    \A p \in Clients :
        LoginRedirected(p) =>
            LET n == SubmittedNext(request[p])
                loc == Get(response[p].location, <<>>)
            IN  /\ ~Mentions(loc, "evil.example")
                /\ (n # None /\ Get(n, <<>>) \in OtherHostExamples) => loc = <<"/">>
                /\ n = Some(RelativePath) => loc = <<"/", "dashboard">>

\* C1 witness: a successful login POST that carried an absolute URL on another host.
C1_Witness ==
    /\ LoginSucceeded(1)
    /\ request[1].POST_next = Some(OtherHostUrl)
    /\ response[1].location = Some(ReverseHome)

\* C8 as stated: a 'next' that is an absolute URL on the application's own host is
\* followed.
C8_OwnHostFollowed ==
    \A p \in Clients :
        (LoginRedirected(p) /\ SubmittedNext(request[p]) = Some(OwnHostUrl))
            => response[p].location = Some(OwnHostUrl)

\* C8 amended: 'next' is followed only when it is a relative reference (no scheme, no
\* host); every absolute URL, the application's own host included, and every empty,
\* scheme-relative or script URL redirects to the landing page, and a missing 'next' to
\* LOGIN_REDIRECT_URL.
C8_OnlyRelativeFollowed ==
    \A p \in Clients :
        LoginRedirected(p) =>
            LET n == SubmittedNext(request[p])
                loc == Get(response[p].location, <<>>)
            IN  /\ n = Some(RelativePath) => loc = <<"/", "dashboard">>
                /\ n = Some(OwnHostUrl) => loc = <<"/">>
                /\ (n # None /\ Get(n, <<>>) \in OtherHostExamples \cup {ScriptUrl, EmptyUrl})
                       => loc = <<"/">>
                /\ n = None => loc = LOGIN_REDIRECT_URL

\* C8 witness: a login redirect whose 'next' was on the application's own host.
C8_Witness ==
    /\ LoginRedirected(1)
    /\ SubmittedNext(request[1]) = Some(OwnHostUrl)
    /\ response[1].location = Some(ReverseHome)

\* C4: a successful login stores the last-login time when the maintenance flag is off
\* at that login (off when the view read it and off when the user is logged in), and
\* leaves it alone when the flag was on.
C4_FlagDecidesLastLogin ==
    [][\A p \in Clients :
          (pc[p] = "auth_login" /\ pc'[p] = "check_config") =>
              IF Has("warning: maintenance mode", events[p])
              THEN last_login' = last_login
              ELSE ~MAINTENANCE_MODE =>
                       /\ last_login'[request[p].username] = now
                       /\ Has("update_last_login", events'[p])]_vars

\* C6 as stated: on a successful login the audit event comes after the UserConfig has
\* been ensured.
C6_AuditAfterUserConfig ==
    \A p \in Clients :
        LoginSucceeded(p) =>
            LET ensured == IF Has("save userconfig", events[p])
                           THEN Pos("save userconfig", events[p])
                           ELSE Pos("userconfig exists", events[p])
            IN  ensured < Pos("info: authenticated", events[p])

\* C6 amended: the session is marked first, then the last-login time is stored (when the
\* receiver is connected), then the audit event is emitted, then the UserConfig is
\* ensured, and the redirect is produced last.
C6_SideEffectOrder ==
    \A p \in Clients :
        LET evs == events[p]
            ensured == IF Has("save userconfig", evs) THEN Pos("save userconfig", evs)
                       ELSE Pos("userconfig exists", evs)
        IN  /\ Has("update_last_login", evs) =>
                   /\ Has("session", evs)
                   /\ Pos("session", evs) < Pos("update_last_login", evs)
            /\ Has("info: authenticated", evs) =>
                   /\ Has("session", evs)
                   /\ Pos("session", evs) < Pos("info: authenticated", evs)
                   /\ Pos("update_last_login", evs) < Pos("info: authenticated", evs)
            /\ ensured > 0 =>
                   /\ Has("info: authenticated", evs)
                   /\ Pos("info: authenticated", evs) < ensured
            /\ LoginSucceeded(p) =>
                   /\ ensured > 0
                   /\ Pos("redirect", evs) = Len(evs)
                   /\ ensured < Pos("redirect", evs)

\* C6 witness: a successful login that stored the time and created the UserConfig.
C6_Witness ==
    /\ LoginSucceeded(1)
    /\ Has("update_last_login", events[1])
    /\ Has("save userconfig", events[1])

\* C7: whatever the session is, LogoutView.get can run, ends with an anonymous session,
\* emits the logout event and answers with a redirect to LOGOUT_REDIRECT_URL that deletes
\* the session_key cookie; run on the state a logout left, it leaves session and
\* response as they are.
C7_LogoutAlwaysSucceeds ==
    /\ [](\A p \in Clients : pc[p] = "LogoutView.get" => ENABLED LogoutView_get(p))
    /\ [][\A p \in Clients :
             (pc[p] = "LogoutView.get" /\ pc'[p] # pc[p]) =>
                 /\ pc'[p] = "idle"
                 /\ session'[p] = Anonymous
                 /\ Has("info: logged out", events'[p])
                 /\ response'[p].status = 302
                 /\ response'[p].location = Some(LOGOUT_REDIRECT_URL)
                 /\ response'[p].delete_cookie = {"session_key"}
                 /\ (session[p] = Anonymous /\ response[p].delete_cookie = {"session_key"})
                        => (session'[p] = session[p] /\ response'[p] = response[p])]_vars

\* C7 witness: a second logout in a row is about to run: the first one has answered and
\* the session is already anonymous.
C7_Witness ==
    /\ pc[1] = "LogoutView.get"
    /\ session[1] = Anonymous
    /\ response[1].delete_cookie = {"session_key"}
    /\ Has("info: logged out", events[1]) = FALSE

\* C10: a login POST whose credentials are rejected ends in a re-render of the login
\* form with the identity-provider links, never in a redirect, and changes neither the
\* sessions, nor any last-login time, nor the UserConfig table, nor the connection of
\* the last-login receiver.
C10_RejectedLoginChangesNothing ==
    [][\A p \in Clients :
          (pc[p] = "LoginView.post" /\ pc'[p] # pc[p] /\ ~FormIsValid(request[p])) =>
              /\ pc'[p] = "idle"
              /\ session' = session
              /\ last_login' = last_login
              /\ userconfigs' = userconfigs
              /\ receiver_connected' = receiver_connected
              /\ response'[p].status = 200
              /\ response'[p].template = "login.html"
              /\ response'[p].location = None
              /\ Len(response'[p].auth_backends) = 3
              /\ \A i \in 1..3 :
                     response'[p].auth_backends[i].params.next =
                         (IF request[p].GET_next = Some(<<>>) THEN None
                          ELSE request[p].GET_next)]_vars

\* C10 witness: a rejected login that carried a 'next' on another host, with the
\* maintenance flag on and the receiver still connected.
C10_Witness ==
    /\ pc[1] = "idle"
    /\ request[1].method = "POST"
    /\ request[1].password = "wrong"
    /\ request[1].POST_next = Some(OtherHostUrl)
    /\ response[1].status = 200
    /\ MAINTENANCE_MODE
    /\ receiver_connected

\* The rows of the UserConfig table that belong to user u.
ConfigRows(u) == {i \in 1..Len(userconfigs) : userconfigs[i].user = u}

\* C5: under every interleaving of logins no user has two UserConfigs, a user whose
\* login was answered with the redirect has exactly one, a row a login adds holds the
\* default preferences, and no existing row is changed or removed.
C5_OneUserConfig ==
    /\ [](\A u \in Users : Cardinality(ConfigRows(u)) <= 1)
    /\ [](\A p \in Clients :
             LoginSucceeded(p) => Cardinality(ConfigRows(request[p].username)) = 1)
    /\ [][/\ Len(userconfigs') >= Len(userconfigs)
          /\ \A i \in 1..Len(userconfigs) : userconfigs'[i] = userconfigs[i]
          /\ \A i \in (Len(userconfigs) + 1)..Len(userconfigs') :
                 userconfigs'[i].data = "defaults"]_vars

\* C5 witness: two logins of the same user raced: one created the UserConfig and was
\* redirected, the other's save was refused.
C5_Witness ==
    /\ LoginSucceeded(1)
    /\ pc[2] = "idle"
    /\ response[2].status = 500
    /\ request[2].username = request[1].username
    /\ Has("save userconfig", events[1])

(***************************************************************************)
(* Properties of the token views                                           *)
(***************************************************************************)
\* The plaintext secrets a response carries: in its context, its form or its table.
Exposed(resp) == resp.context_key \cup resp.form_keys \cup resp.table_keys

\* The step answers a request of a user who does not own the stored token it names.
NamesForeignToken(resp) ==
    \E t \in tokens : resp.pk = Some(t.pk) /\ t.user # resp.by

\* C2: a request naming another user's token is answered not-found and changes no
\* token, a token list never shows another user's token, and every stored token is
\* owned by the user whose request created it.
C2_TokenOwnership ==
    /\ [](\A t \in tokens : t.user = t.created_by)
    /\ [][LET resp == token_response'
          IN  /\ NamesForeignToken(resp) => (resp.status = 404 /\ tokens' = tokens)
              /\ resp.view = "list" =>
                     \A t \in tokens : t.user # resp.by => t.pk \notin resp.shown]_vars

\* C2 witness: bob's delete POST naming alice's token was answered not-found and the
\* token is still there.
C2_Witness ==
    /\ token_response.by = "bob"
    /\ token_response.view = "delete"
    /\ token_response.method = "POST"
    /\ token_response.status = 404
    /\ \E t \in tokens : token_response.pk = Some(t.pk) /\ t.user = "alice"

\* C3: with ALLOW_TOKEN_RETRIEVAL off, the response to the POST that creates a token
\* carries that token's secret, and no other response carries any secret.
C3_SecretShownOnce ==
    [][~ALLOW_TOKEN_RETRIEVAL =>
          Exposed(token_response') = {t.key : t \in {n \in tokens' : n.pk \notin {o.pk : o \in tokens}}}]_vars

\* C3 witness: with retrieval off, the owner edited a stored token whose secret was
\* shown at creation, and the response carries no secret.
C3_Witness ==
    /\ ~ALLOW_TOKEN_RETRIEVAL
    /\ token_response.view = "edit"
    /\ token_response.method = "POST"
    /\ token_response.status = 302
    /\ \E t \in tokens : token_response.pk = Some(t.pk) /\ t.user = token_response.by
    /\ Exposed(token_response) = {}

(***************************************************************************)
(* Properties of the bulk-edit forms                                       *)
(***************************************************************************)
\* C9 as stated: the bulk-edit form accepts as targets only rows restrict() admits for
\* the acting principal.
C9_FormAcceptsOnlyAdmitted ==
    bulk_form.is_valid => bulk_form.cleaned_pk \subseteq admitted[bulk_form.model]

\* C9 amended: the form accepts every non-empty set of existing rows, admitted or not:
\* it does no filtering by permission.  The filtering is the view's: a row outside the
\* predicate is never modified.
C9_OnlyAdmittedModified ==
    /\ [](bulk_form.model \in BulkModels =>
             (bulk_form.is_valid <=> (bulk_form.pk # {} /\ bulk_form.pk \subseteq 1..NumRows)))
    /\ [](bulk_form.is_valid => bulk_form.cleaned_pk = bulk_form.pk)
    /\ [][\A m \in BulkModels : \A k \in 1..NumRows :
             k \notin admitted[m] => rows'[m][k] = rows[m][k]]_vars

\* C9 witness: the form accepted a row outside the predicate, and the view changed
\* nothing and counted it as refused.
C9_Witness ==
    /\ bulk_form.is_valid
    /\ ~(bulk_form.cleaned_pk \subseteq admitted[bulk_form.model])
    /\ bulk_response.updated = 0
    /\ bulk_response.unauthorized > 0

====
